---- MODULE Spec2Model ----
(***************************************************************************)
(* A model of dbgap/dbgap_study_information.py: the StudyIdentifier value  *)
(* class, get_study_information and biocaddie_json.                        *)
(*                                                                         *)
(* Python values are modelled as follows.                                  *)
(*   str   a sequence of its pieces: single characters where the code      *)
(*         formats or the claims inspect them, opaque chunks elsewhere;    *)
(*         + on str is \o.                                                 *)
(*   list  a sequence of its elements.                                     *)
(*   dict / object with attributes   a function whose domain is the set of *)
(*         keys (attribute names) that are present.                        *)
(***************************************************************************)
EXTENDS Integers, Sequences, FiniteSets, TLC

VARIABLES
    \* ---- StudyIdentifier and get_study_information ----
    args,        \* <<id_, v, p>> handed to StudyIdentifier.__init__
    idpc,        \* "new" before __init__ has run, "constructed" after
    self_dict,   \* the instance's __dict__ (attribute name -> value)
    held,        \* the caller holds the object returned by .identifiers
    seen,        \* what the caller's latest read of .identifiers showed
    ops,         \* operations performed on the object since construction
    fetched,     \* the fetches performed by the latest get_study_information
    used,        \* the mapping the latest get_study_information substituted
    reply,       \* what the fetch collaborator produced for that call
    outcome,     \* what that call gave its caller
    \* ---- biocaddie_json ----
    docs,        \* the caller's raw documents
    shapes,      \* for each of them, what it was built from (see MakeDoc)
    phts,        \* the caller's pht-entry lists
    budget,      \* calls of biocaddie_json the caller still makes
    pc,          \* position inside biocaddie_json ("idle" between calls)
    raw_json,    \* index in docs of the argument raw_json
    pht_entries, \* index in phts of the argument pht_entries
    study,       \* local variable study
    study_entry, \* local variable study_entry
    result,      \* how the latest call ended
    outs         \* the log of finished calls

idvars  == <<args, idpc, self_dict, held, seen, ops, fetched, used, reply, outcome>>
mapvars == <<docs, shapes, phts, budget, pc, raw_json, pht_entries, study, study_entry,
             result, outs>>
vars    == <<args, idpc, self_dict, held, seen, ops, fetched, used, reply, outcome,
             docs, shapes, phts, budget, pc, raw_json, pht_entries, study,
             study_entry, result, outs>>

(***************************************************************************)
(* Bounds of the model.                                                    *)
(***************************************************************************)
MaxOps == 3
MaxMissing == 2
MaxPht == 2
MaxCalls == 3

(***************************************************************************)
(* Generic helpers for dicts and objects.                                  *)
(***************************************************************************)
EmptyDict == [x \in {} |-> x]

\* d[k] = v, obj.k = v: the key is added or its value replaced.
SetItem(d, k, v) == [x \in (DOMAIN d) \cup {k} |-> IF x = k THEN v ELSE d[x]]

(***************************************************************************)
(* Python's % formatting of integers ('%d' and '%06d').                    *)
(***************************************************************************)
DigitChars == <<"0", "1", "2", "3", "4", "5", "6", "7", "8", "9">>

RECURSIVE Digits(_)
Digits(n) == IF n < 10 THEN <<DigitChars[n + 1]>>
             ELSE Digits(n \div 10) \o <<DigitChars[(n % 10) + 1]>>

RECURSIVE Zeros(_)
Zeros(k) == IF k <= 0 THEN <<>> ELSE <<"0">> \o Zeros(k - 1)

\* '%d' % n
FormatD(n) == IF n < 0 THEN <<"-">> \o Digits(0 - n) ELSE Digits(n)

\* A faulty variant: '%6d' % n, padding with blanks.
Format06dBlank(n) ==
    LET body == FormatD(n)
        RECURSIVE Blanks(_)
        Blanks(k) == IF k <= 0 THEN <<>> ELSE <<" ">> \o Blanks(k - 1)
    IN  Blanks(6 - Len(body)) \o body

\* A faulty variant: the id cut to its last six digits.
Format06dTruncating(n) ==
    LET m == IF n < 0 THEN 0 - n ELSE n
        digs == Digits(m % 1000000)
    IN  Zeros(6 - Len(digs)) \o digs

\* '%06d' % n: a minimum width of 6, the sign first, zeros between the sign
\* and the digits; a longer number is not cut.
Format06d(n) ==
    LET sign == IF n < 0 THEN <<"-">> ELSE <<>>
        digs == Digits(IF n < 0 THEN 0 - n ELSE n)
    IN  sign \o Zeros(6 - Len(sign) - Len(digs)) \o digs

(***************************************************************************)
(* class StudyIdentifier                                                   *)
(***************************************************************************)
StudyIdOf(id_)         == <<"p", "h", "s">> \o Format06d(id_)
VersionedIdOf(sid, v)  == sid \o <<".", "v">> \o FormatD(v)
FullIdOf(vid, p)       == vid \o <<".", "p">> \o FormatD(p)

\* The inputs explored.
Ids      == <<0, 7, 123, 99999, 999999, 1000000, 1234567, 0 - 1, 0 - 123456>>
Versions == <<0, 4, 12, 0 - 3>>
Psets    == <<0, 5, 10, 0 - 1>>

\* What a caller writes into the mapping.
WriteKeys   == {"studyid", "versionedid", "fullid", "note"}
WriteValues == {<<"x">>}

IdStart ==
    /\ \E i \in 1..Len(Ids), j \in 1..Len(Versions), k \in 1..Len(Psets) :
           args = <<Ids[i], Versions[j], Psets[k]>>
    /\ idpc = "new"
    /\ self_dict = EmptyDict
    /\ held = FALSE
    /\ seen = EmptyDict
    /\ ops = 0
    /\ fetched = <<>>
    /\ used = EmptyDict
    /\ reply = [kind |-> "none"]
    /\ outcome = [kind |-> "none"]

\* StudyIdentifier.__init__(id_, v, p)
Construct ==
    /\ idpc = "new"
    /\ LET d1 == SetItem(self_dict, "studyid", StudyIdOf(args[1]))
           d2 == SetItem(d1, "versionedid", VersionedIdOf(d1["studyid"], args[2]))
           d3 == SetItem(d2, "fullid", FullIdOf(d2["versionedid"], args[3]))
       IN  self_dict' = d3
    /\ idpc' = "constructed"
    /\ UNCHANGED <<args, held, seen, ops, fetched, used, reply, outcome>>
    /\ UNCHANGED mapvars

\* The property StudyIdentifier.identifiers: the instance's own __dict__ is
\* returned, not a copy, so the caller now holds the object's attribute table.
Identifiers ==
    /\ idpc = "constructed"
    /\ ops < MaxOps
    /\ held' = TRUE
    /\ seen' = self_dict
    /\ ops' = ops + 1
    /\ UNCHANGED <<args, idpc, self_dict, fetched, used, reply, outcome>>
    /\ UNCHANGED mapvars

\* The caller stores into the mapping it got from .identifiers: m[k] = val.
\* The mapping is self.__dict__, so the store lands in the instance.
MappingWrite ==
    /\ idpc = "constructed"
    /\ held
    /\ ops < MaxOps
    /\ \E k \in WriteKeys, val \in WriteValues :
           self_dict' = SetItem(self_dict, k, val)
    /\ ops' = ops + 1
    /\ UNCHANGED <<args, idpc, held, seen, fetched, used, reply, outcome>>
    /\ UNCHANGED mapvars

(***************************************************************************)
(* get_study_information.  dbgap/constants.py and dbgap/file_downloader.py *)
(* are not among the sources: the server, the template and the downloader  *)
(* are modelled from the specification's description of them.              *)
(***************************************************************************)
STUDY_FTP_SERVER == <<"ftp-server">>

\* A format string with %(name)s placeholders: literal text and placeholders.
STUDY_FILE_TEMPLATE ==
    << [lit |-> <<"studies/">>], [key |-> "studyid"], [lit |-> <<"/">>],
       [key |-> "versionedid"], [lit |-> <<"/GapExchange_">>], [key |-> "fullid"],
       [lit |-> <<".xml">>] >>

\* template % mapping: every placeholder is replaced by the value the mapping
\* holds for its name; keys the template does not name are ignored.
RECURSIVE PercentFormat(_, _)
PercentFormat(template, mapping) ==
    IF template = <<>> THEN <<>>
    ELSE LET part == Head(template)
             text == IF "lit" \in DOMAIN part THEN part.lit ELSE mapping[part.key]
         IN  text \o PercentFormat(Tail(template), mapping)

\* What FileDownloader.download_file may produce: the text of the resource, or
\* one of the collaborator's failures.
Replies ==
    { [kind |-> "text", val |-> <<"<GaPExchange/>">>],
      [kind |-> "error", val |-> <<"unreachable">>],
      [kind |-> "error", val |-> <<"missing">>],
      [kind |-> "error", val |-> <<"timeout">>] }

\* A faulty variant: a failed download is tried once more.
FetchesOfCallRetrying(path, r) ==
    IF r.kind = "error"
    THEN << [server |-> STUDY_FTP_SERVER, path |-> path],
            [server |-> STUDY_FTP_SERVER, path |-> path] >>
    ELSE << [server |-> STUDY_FTP_SERVER, path |-> path] >>

\* The fetches one call of get_study_information performs, given the path and
\* the collaborator's reply: one download_file call on one FileDownloader,
\* in no loop and under no exception handler.
FetchesOfCall(path, r) == << [server |-> STUDY_FTP_SERVER, path |-> path] >>

\* What the caller of get_study_information gets: the value download_file
\* returned, or the exception it raised.
OutcomeOfCall(r) == r

\* get_study_information(studyid)
GetStudyInformation ==
    /\ idpc = "constructed"
    /\ ops < MaxOps
    /\ \E r \in Replies :
           LET path == PercentFormat(STUDY_FILE_TEMPLATE, self_dict)
           IN  /\ fetched' = FetchesOfCall(path, r)
               /\ used' = self_dict
               /\ reply' = r
               /\ outcome' = OutcomeOfCall(r)
    /\ ops' = ops + 1
    /\ UNCHANGED <<args, idpc, self_dict, held, seen>>
    /\ UNCHANGED mapvars

(***************************************************************************)
(* biocaddie_json                                                          *)
(***************************************************************************)
\* dbgap/constants.py is not among the sources: the prefix is an opaque chunk.
DBGAP == <<"<DBGAP>">>

\* A faulty variant: an absent attribute reads as an empty default instead of failing.
GetAttrDefaulting(obj, name) ==
    IF name \in DOMAIN obj THEN [ok |-> TRUE, val |-> obj[name]]
    ELSE [ok |-> TRUE, val |-> <<>>]

\* obj.name on a JsonObj: the value, or AttributeError when it is absent.
GetAttr(obj, name) ==
    IF name \in DOMAIN obj THEN [ok |-> TRUE, val |-> obj[name]]
    ELSE [ok |-> FALSE, exc |-> <<"AttributeError", name>>]

\* obj.a.b.c, evaluated left to right; the first failure ends the evaluation.
RECURSIVE GetPath(_, _)
GetPath(obj, path) ==
    IF path = <<>> THEN [ok |-> TRUE, val |-> obj]
    ELSE LET r == GetAttr(obj, Head(path))
         IN  IF r.ok THEN GetPath(r.val, Tail(path)) ELSE r

\* A faulty variant: jsonasobj.JsonObj() that carries a bookkeeping attribute.
NewStudyEntryWithContext == [x \in {"_context"} |-> <<"ctx">>]

\* jsonasobj.JsonObj(): a fresh object with no attributes.
NewStudyEntry == EmptyDict

\* A faulty variant: the accession without the prefix.
IdentifierInfoBare(accession) ==
    << [identifier |-> accession, identifierScheme |-> <<"dbGaP">>] >>

\* [dict(identifier=DBGAP + study.accession, identifierScheme="dbGaP")]
IdentifierInfo(accession) ==
    << [identifier |-> DBGAP \o accession, identifierScheme |-> <<"dbGaP">>] >>

\* A faulty variant: an entry already listed is not listed again.
RECURSIVE ResultsInUnique(_)
ResultsInUnique(entries) ==
    IF entries = <<>> THEN <<>>
    ELSE LET front == ResultsInUnique(SubSeq(entries, 1, Len(entries) - 1))
             last  == DBGAP \o entries[Len(entries)]
         IN  IF \E i \in 1..Len(front) : front[i] = last THEN front
             ELSE Append(front, last)

\* A faulty variant: the list is built in a list shared by all calls.
ResultsInShared(entries) ==
    LET before == IF outs # <<>> /\ outs[Len(outs)].result.kind = "returned"
                  THEN outs[Len(outs)].result.doc["resultsIn"] ELSE <<>>
    IN  before \o [i \in 1..Len(entries) |-> DBGAP \o entries[i]]

\* [DBGAP + pht for pht in pht_entries]
ResultsIn(entries) == [i \in 1..Len(entries) |-> DBGAP \o entries[i]]

\* ---- the raw documents explored ----
FieldNames == {"GaPExchange", "Studies", "Study", "accession", "Configuration",
               "StudyNameEntrez", "StudyNameReportPage", "StudyTypes", "StudyType"}

Accessions == {<<"phs000123.v4.p5">>, <<"phs000007.v1.p1">>}

\* StudyType as found in the exchange document: a list of one, a list of two,
\* a single scalar value, an empty list.
StudyTypeShapes ==
    << << <<"Case Set">> >>,
       << <<"Case Set">>, <<"Cohort">> >>,
       <<"Case-Control">>,
       << >> >>

PhtNames == {<<"pht000111">>, <<"pht000112">>}

PhtLists(n) == UNION {[1..k -> PhtNames] : k \in 0..n}

\* name: val, unless the field is to be absent.
Field(name, val, missing) == IF name \in missing THEN EmptyDict ELSE name :> val

\* fields: more, when the document carries fields the mapper does not consume.
Extra(extra, more) == IF extra THEN more ELSE EmptyDict

MakeDoc(missing, acc, stype, extra) ==
    LET types  == Field("StudyType", stype, missing)
        config == Field("StudyNameEntrez", <<"Example Study">>, missing)
                  @@ Field("StudyNameReportPage", <<"An example.">>, missing)
                  @@ Field("StudyTypes", types, missing)
                  @@ Extra(extra, "Description" :> <<"Long text.">>)
        st     == Field("accession", acc, missing)
                  @@ Field("Configuration", config, missing)
                  @@ Extra(extra, "parentStudy" :> <<"phs000001">>)
        sts    == Field("Study", st, missing)
        gap    == Field("Studies", sts, missing)
                  @@ Extra(extra, "xmlns" :> <<"ns">>)
    IN  Field("GaPExchange", gap, missing)

IdIdle ==
    /\ args = <<0, 0, 0>>
    /\ idpc = "new"
    /\ self_dict = EmptyDict
    /\ held = FALSE
    /\ seen = EmptyDict
    /\ ops = 0
    /\ fetched = <<>>
    /\ used = EmptyDict
    /\ reply = [kind |-> "none"]
    /\ outcome = [kind |-> "none"]

\* The document built from a shape.
DocOf(sh) == MakeDoc(sh.missing, sh.acc, StudyTypeShapes[sh.t], sh.extra)

MapIdleWith(shs, ps, n) ==
    /\ shapes = shs
    /\ docs = [i \in DOMAIN shs |-> DocOf(shs[i])]
    /\ phts = ps
    /\ budget = n
    /\ pc = "idle"
    /\ raw_json = 0
    /\ pht_entries = 0
    /\ study = EmptyDict
    /\ study_entry = EmptyDict
    /\ result = [kind |-> "none"]
    /\ outs = <<>>

\* A StudyIdentifier to be built; biocaddie_json is not called.
InitId == IdStart /\ MapIdleWith(<<>>, <<>>, 0)

\* One call on one document and one list, both drawn widely.
InitMap ==
    /\ IdIdle
    /\ \E missing \in {m \in SUBSET FieldNames : Cardinality(m) <= MaxMissing},
          acc \in Accessions, t \in 1..Len(StudyTypeShapes), extra \in BOOLEAN,
          ps \in PhtLists(MaxPht) :
           MapIdleWith(<< [missing |-> missing, acc |-> acc, t |-> t, extra |-> extra] >>,
                       <<ps>>, 1)

\* Several calls on two documents and two lists.
InitPure ==
    /\ IdIdle
    /\ \E missing \in {{}, {"StudyNameEntrez"}}, t \in 1..2, ps \in PhtLists(MaxPht) :
           MapIdleWith(
               << [missing |-> missing, acc |-> <<"phs000123.v4.p5">>, t |-> t,
                   extra |-> FALSE],
                  [missing |-> {}, acc |-> <<"phs000007.v1.p1">>, t |-> 3,
                   extra |-> TRUE] >>,
               << ps, << <<"pht000111">> >> >>,
               MaxCalls)

\* ---- the steps of biocaddie_json ----
\* The next statement is reached with the locals as given.
Advance(next, st, se) ==
    /\ pc' = next
    /\ study' = st
    /\ study_entry' = se
    /\ UNCHANGED <<docs, shapes, phts, budget, raw_json, pht_entries, result, outs>>
    /\ UNCHANGED idvars

\* The call ends, by return or by an exception leaving the function: the
\* locals are gone and the caller has the result.
Finish(res) ==
    /\ pc' = "idle"
    /\ study' = EmptyDict
    /\ study_entry' = EmptyDict
    /\ result' = res
    /\ outs' = Append(outs, [doc |-> raw_json, pht |-> pht_entries, result |-> res])
    /\ UNCHANGED <<docs, shapes, phts, budget, raw_json, pht_entries>>
    /\ UNCHANGED idvars

Raise(exc) == Finish([kind |-> "raised", exc |-> exc])

\* The caller calls biocaddie_json(docs[i], phts[j]).
Call ==
    /\ pc = "idle"
    /\ budget > 0
    /\ \E i \in DOMAIN docs, j \in DOMAIN phts :
           /\ raw_json' = i
           /\ pht_entries' = j
    /\ budget' = budget - 1
    /\ pc' = "L64"
    /\ result' = [kind |-> "running"]
    /\ UNCHANGED <<docs, shapes, phts, study, study_entry, outs>>
    /\ UNCHANGED idvars

\* study = raw_json.GaPExchange.Studies.Study
Line64 ==
    /\ pc = "L64"
    /\ LET r == GetPath(docs[raw_json], <<"GaPExchange", "Studies", "Study">>)
       IN  IF r.ok THEN Advance("L65", r.val, study_entry) ELSE Raise(r.exc)

\* study_entry = jsonasobj.JsonObj()
Line65 ==
    /\ pc = "L65"
    /\ Advance("L67", study, NewStudyEntry)

\* study_entry['@type'] = 'Study'
Line67 ==
    /\ pc = "L67"
    /\ Advance("L68", study, SetItem(study_entry, "@type", <<"Study">>))

\* study_entry.identifierInfo = [dict(identifier=DBGAP + study.accession, ...)]
Line68 ==
    /\ pc = "L68"
    /\ LET r == GetAttr(study, "accession")
       IN  IF r.ok
           THEN Advance("L69", study,
                        SetItem(study_entry, "identifierInfo", IdentifierInfo(r.val)))
           ELSE Raise(r.exc)

\* study_entry.title = study.Configuration.StudyNameEntrez
Line69 ==
    /\ pc = "L69"
    /\ LET r == GetPath(study, <<"Configuration", "StudyNameEntrez">>)
       IN  IF r.ok THEN Advance("L70", study, SetItem(study_entry, "title", r.val))
           ELSE Raise(r.exc)

\* study_entry.description = study.Configuration.StudyNameReportPage
Line70 ==
    /\ pc = "L70"
    /\ LET r == GetPath(study, <<"Configuration", "StudyNameReportPage">>)
       IN  IF r.ok
           THEN Advance("L71", study, SetItem(study_entry, "description", r.val))
           ELSE Raise(r.exc)

\* study_entry.study_types = study.Configuration.StudyTypes.StudyType
Line71 ==
    /\ pc = "L71"
    /\ LET r == GetPath(study, <<"Configuration", "StudyTypes", "StudyType">>)
       IN  IF r.ok
           THEN Advance("L79", study, SetItem(study_entry, "study_types", r.val))
           ELSE Raise(r.exc)

\* study_entry.resultsIn = [DBGAP + pht for pht in pht_entries]
Line79 ==
    /\ pc = "L79"
    /\ Advance("L80", study,
               SetItem(study_entry, "resultsIn", ResultsIn(phts[pht_entries])))

\* return study_entry
Line80 ==
    /\ pc = "L80"
    /\ Finish([kind |-> "returned", doc |-> study_entry])

(***************************************************************************)
(* The specifications.                                                     *)
(***************************************************************************)
NextId == Construct \/ Identifiers \/ MappingWrite \/ GetStudyInformation

NextMap == Call \/ Line64 \/ Line65 \/ Line67 \/ Line68 \/ Line69 \/ Line70
           \/ Line71 \/ Line79 \/ Line80

\* A StudyIdentifier, its mapping and get_study_information.
SpecId == InitId /\ [][NextId]_vars

\* One call of biocaddie_json.
SpecMap == InitMap /\ [][NextMap]_vars

\* Repeated calls of biocaddie_json.
SpecPure == InitPure /\ [][NextMap]_vars

(***************************************************************************)
(* Vocabulary of the properties.                                           *)
(***************************************************************************)
IdKeys == {"studyid", "versionedid", "fullid"}

\* The object as __init__ left it: nothing has been done to it since.
Fresh == idpc = "constructed" /\ ops = 0

IsDigit(c) == \E d \in 1..10 : DigitChars[d] = c

AllDigits(str) == \A i \in 1..Len(str) : IsDigit(str[i])

\* The number a string of digits denotes.
RECURSIVE DecimalValue(_)
DecimalValue(str) ==
    IF str = <<>> THEN 0
    ELSE 10 * DecimalValue(SubSeq(str, 1, Len(str) - 1))
         + ((CHOOSE d \in 1..10 : DigitChars[d] = str[Len(str)]) - 1)

\* str is the decimal numeral of n >= 0: digits only, no leading zero.
IsDecimalOf(str, n) ==
    /\ Len(str) >= 1
    /\ AllDigits(str)
    /\ (Len(str) > 1 => str[1] # "0")
    /\ DecimalValue(str) = n

\* "phs" followed by exactly six decimal digits.
Canonical(str) ==
    /\ Len(str) = 9
    /\ SubSeq(str, 1, 3) = <<"p", "h", "s">>
    /\ AllDigits(SubSeq(str, 4, 9))

\* whole = front + mark + the decimal numeral of n
Extends(whole, front, mark, n) ==
    /\ Len(whole) > Len(front) + 2
    /\ SubSeq(whole, 1, Len(front)) = front
    /\ SubSeq(whole, Len(front) + 1, Len(front) + 2) = mark
    /\ IsDecimalOf(SubSeq(whole, Len(front) + 3, Len(whole)), n)

\* C1: for 0 <= id < 1,000,000, version >= 0 and pset >= 0 the constructor
\* yields studyid = "phs" + id padded with zeros to exactly six digits,
\* versionedid = studyid + ".v" + version and fullid = versionedid + ".p" + pset;
\* 123, 4, 5 gives phs000123, phs000123.v4 and phs000123.v4.p5.
C1_ConstructedStrings ==
    (Fresh /\ 0 <= args[1] /\ args[1] < 1000000 /\ args[2] >= 0 /\ args[3] >= 0) =>
        /\ Canonical(self_dict["studyid"])
        /\ DecimalValue(SubSeq(self_dict["studyid"], 4, 9)) = args[1]
        /\ Extends(self_dict["versionedid"], self_dict["studyid"], <<".", "v">>, args[2])
        /\ Extends(self_dict["fullid"], self_dict["versionedid"], <<".", "p">>, args[3])
        /\ (args = <<123, 4, 5>> =>
               /\ self_dict["studyid"] = <<"p", "h", "s", "0", "0", "0", "1", "2", "3">>
               /\ self_dict["versionedid"] =
                      <<"p", "h", "s", "0", "0", "0", "1", "2", "3", ".", "v", "4">>
               /\ self_dict["fullid"] =
                      <<"p", "h", "s", "0", "0", "0", "1", "2", "3", ".", "v", "4",
                        ".", "p", "5">>)

C1_Witness ==
    /\ Fresh
    /\ args = <<99999, 12, 10>>
    /\ self_dict["fullid"] = <<"p", "h", "s", "0", "9", "9", "9", "9", "9", ".", "v",
                               "1", "2", ".", "p", "1", "0">>

\* C2: the mapping a caller gets from identifiers has exactly the keys studyid,
\* versionedid and fullid, each with the value of the attribute of that name.
\* (The mapping is the attribute table itself, so the values agree by identity;
\* the key set is what a read can get wrong.)
C2_ExactlyThreeKeys ==
    held => DOMAIN seen = IdKeys

\* C3: once constructed, nothing a caller can do (reading the attributes,
\* reading identifiers, storing into the mapping identifiers returned) changes
\* the attributes or what identifiers shows.
C3_Immutable == [][idpc = "constructed" => self_dict' = self_dict]_vars

\* C9: a call of get_study_information performs exactly one fetch, on the
\* configured server, of the template filled in from the identifier's mapping,
\* and gives its caller what the collaborator produced, text or failure.
C9_OneFetchPropagated ==
    outcome.kind # "none" =>
        /\ Len(fetched) = 1
        /\ fetched[1].server = STUDY_FTP_SERVER
        /\ fetched[1].path = <<"studies/">> \o used["studyid"] \o <<"/">>
                             \o used["versionedid"] \o <<"/GapExchange_">>
                             \o used["fullid"] \o <<".xml">>
        /\ outcome = reply
        /\ reply \in Replies

C9_Witness ==
    /\ outcome = [kind |-> "error", val |-> <<"timeout">>]
    /\ Len(fetched) = 1
    /\ args = <<123, 4, 5>>
    /\ ~held

\* C10: the constructor validates nothing: for any integers it runs to the end
\* and leaves three strings, and for id < 0 or id >= 1,000,000 the studyid is
\* not "phs" followed by exactly six digits.
C10_NoValidation ==
    /\ (idpc = "new" => ENABLED Construct)
    /\ Fresh =>
           /\ DOMAIN self_dict = IdKeys
           /\ \A k \in IdKeys : Len(self_dict[k]) > 3
           /\ ((args[1] < 0 \/ args[1] >= 1000000) => ~Canonical(self_dict["studyid"]))

C10_Witness ==
    /\ Fresh
    /\ args[1] = 1000000
    /\ args[2] < 0
    /\ self_dict["studyid"] = <<"p", "h", "s", "1", "0", "0", "0", "0", "0", "0">>

\* ---- biocaddie_json ----
SixKeys == {"@type", "identifierInfo", "title", "description", "study_types",
            "resultsIn"}

Returned == pc = "idle" /\ result.kind = "returned"

Ended == pc = "idle" /\ result.kind \in {"returned", "raised"}

\* The shape, the document and the list of the latest call.
ShapeArg == shapes[raw_json]
DocArg   == docs[raw_json]
PhtArg   == phts[pht_entries]

\* The attribute names in the order biocaddie_json reads them.
ReadOrder == <<"GaPExchange", "Studies", "Study", "accession", "Configuration",
               "StudyNameEntrez", "StudyNameReportPage", "StudyTypes", "StudyType">>

\* The first attribute, in reading order, that the document lacks.
FirstAbsent(missing) ==
    ReadOrder[CHOOSE i \in 1..Len(ReadOrder) :
                  /\ ReadOrder[i] \in missing
                  /\ \A j \in 1..(i - 1) : ReadOrder[j] \notin missing]

\* The attributes read before a statement is reached.
ReadBefore(at) ==
    CASE at \in {"idle", "L64"}       -> {}
      [] at \in {"L65", "L67", "L68"} -> {"GaPExchange", "Studies", "Study"}
      [] at = "L69" -> {"GaPExchange", "Studies", "Study", "accession"}
      [] at = "L70" -> {"GaPExchange", "Studies", "Study", "accession",
                        "Configuration", "StudyNameEntrez"}
      [] at = "L71" -> {"GaPExchange", "Studies", "Study", "accession",
                        "Configuration", "StudyNameEntrez", "StudyNameReportPage"}
      [] OTHER      -> FieldNames

\* C4: a document biocaddie_json returns has exactly the six keys @type,
\* identifierInfo, title, description, study_types and resultsIn, whatever the
\* raw document and the pht list held.
C4_ExactlySixKeys == Returned => DOMAIN result.doc = SixKeys

C4_Witness ==
    /\ Returned
    /\ PhtArg = <<>>
    /\ ShapeArg.extra
    /\ "xmlns" \in DOMAIN DocArg["GaPExchange"]
    /\ "resultsIn" \in DOMAIN result.doc

\* C5: for a raw document with all consumed fields the call returns @type =
\* "Study", identifierInfo = one mapping {identifier: prefix + accession,
\* identifierScheme: "dbGaP"}, title = StudyNameEntrez, description =
\* StudyNameReportPage and study_types = StudyType as found, list or scalar.
C5_FieldMapping ==
    (Ended /\ ShapeArg.missing = {}) =>
        /\ result.kind = "returned"
        /\ LET st == DocArg["GaPExchange"]["Studies"]["Study"]
               d  == result.doc
           IN  /\ d["@type"] = <<"Study">>
               /\ Len(d["identifierInfo"]) = 1
               /\ DOMAIN d["identifierInfo"][1] = {"identifier", "identifierScheme"}
               /\ d["identifierInfo"][1]["identifier"] = <<"<DBGAP>">> \o st["accession"]
               /\ d["identifierInfo"][1]["identifier"] = DBGAP \o ShapeArg.acc
               /\ d["identifierInfo"][1]["identifierScheme"] = <<"dbGaP">>
               /\ d["title"] = st["Configuration"]["StudyNameEntrez"]
               /\ d["title"] = <<"Example Study">>
               /\ d["description"] = st["Configuration"]["StudyNameReportPage"]
               /\ d["description"] = <<"An example.">>
               /\ d["study_types"] = StudyTypeShapes[ShapeArg.t]

\* A scalar StudyType came through as the scalar.
C5_Witness ==
    /\ Returned
    /\ ShapeArg.t = 3
    /\ result.doc["study_types"] = <<"Case-Control">>
    /\ result.doc["identifierInfo"][1]["identifier"] = <<"<DBGAP>", "phs000123.v4.p5">>

\* C6: resultsIn has the length of the pht list and its i-th element is the
\* prefix followed by the i-th pht entry, duplicates and the empty list included.
C6_ResultsInOrder ==
    Returned =>
        LET r == result.doc["resultsIn"]
        IN  /\ Len(r) = Len(PhtArg)
            /\ \A i \in 1..Len(PhtArg) : r[i] = <<"<DBGAP>">> \o PhtArg[i]

C6_Witness ==
    /\ Returned
    /\ PhtArg = << <<"pht000112">>, <<"pht000112">> >>
    /\ result.doc["resultsIn"] =
           << <<"<DBGAP>", "pht000112">>, <<"<DBGAP>", "pht000112">> >>

\* C7: biocaddie_json changes neither the raw document nor the pht list, and
\* two calls with the same document and the same list give equal results,
\* whatever calls were made in between.
C7_Pure ==
    [][ /\ docs' = docs
        /\ phts' = phts
        /\ \A a, b \in DOMAIN outs' :
               (outs'[a].doc = outs'[b].doc /\ phts[outs'[a].pht] = phts[outs'[b].pht])
                   => outs'[a].result = outs'[b].result ]_vars

\* The same document and list mapped twice, another call in between.
C7_Witness ==
    /\ Len(outs) >= 3
    /\ outs[1].doc = outs[3].doc
    /\ outs[1].pht = outs[3].pht
    /\ outs[2].doc # outs[1].doc
    /\ outs[2].pht # outs[1].pht
    /\ outs[1].result.kind = "returned"
    /\ outs[3].result = outs[1].result
    /\ Len(outs[1].result.doc["resultsIn"]) = 2

\* C8: when a consumed field of the raw document is absent the call fails at
\* once with the field-access error, which reaches the caller: no statement
\* after the failing read runs and no document, whole or partial, is returned.
C8_AbsentFieldRaises ==
    /\ (pc # "idle" => ReadBefore(pc) \cap ShapeArg.missing = {})
    /\ (Ended /\ ShapeArg.missing # {}) =>
           /\ result.kind = "raised"
           /\ result.exc = <<"AttributeError", FirstAbsent(ShapeArg.missing)>>
           /\ DOMAIN result = {"kind", "exc"}

C8_Witness ==
    /\ Ended
    /\ ShapeArg.missing = {"StudyNameEntrez"}
    /\ result = [kind |-> "raised", exc |-> <<"AttributeError", "StudyNameEntrez">>]
====
